---- MODULE Spec2Model ----
(***************************************************************************)
(* A model of tbplot: the tolerance set FuzzySet and the option merge      *)
(* with_defaults (tbplot/detail/utils.py), the figure comparison scope     *)
(* AssertFigure (tests/utils/compare_figures.py), the axes scope           *)
(* (tbplot/pltutils.py), and the maps SpatialMap and StructureMap with     *)
(* their indexing, cropping, clipping and site radii (tbplot/results.py).  *)
(* Each part has its own specification; the variables of the other parts   *)
(* stay idle in it.                                                        *)
(*                                                                         *)
(* Numbers are exact integers: items are finite numeric vectors, the       *)
(* tolerances are non-negative, and no rounding is modelled.               *)
(***************************************************************************)
EXTENDS Integers, Sequences, FiniteSets, TLC

VARIABLES
    \* FuzzySet (utils.py:44-85)
    data,       \* self.data: the stored items, in insertion order
    rtol,       \* self.rtol
    atol,       \* self.atol
    call,       \* the last call made on the set: [op, arg]
    ret,        \* what that call returned
    old,        \* self.data as it was when that call started
    \* with_defaults (utils.py:5-20)
    heap,             \* the mapping objects, by object id 1..Len(heap)
    options,          \* the id of the caller's options, 0 for None
    defaults_dict,    \* the id of the caller's defaults_dict, 0 for None
    defaults_kwargs,  \* the id of the dict holding the keyword defaults
    result,           \* the id of the returned mapping, 0 before the return
    heap_at_call,     \* the heap as it was when the call started
    \* AssertFigure (compare_figures.py:33-131) and what it acts on
    test,             \* the test scenario: the arguments of __call__ and what the body does
    pc,               \* where the test run stands
    rc,               \* mpl.rcParams
    units,            \* matplotlib.units.registry
    fs,               \* the image files, by path
    passed,           \* self.passed
    tol,              \* self.tol
    remove_text,      \* self.remove_text
    original_rc,      \* self._original_rc
    original_units,   \* self._original_units_registry
    fig,              \* self.fig, the figure the body draws on
    raised,           \* the exception that left the with statement
    rendered,         \* the image plt.savefig wrote during the last __exit__
    compared,         \* the images the last __exit__ handed to compare_images
    fs_at_exit,       \* the image files as they were when the last __exit__ started
    cmp_error,        \* the error compare_images raised during the last __exit__
    adopted,          \* whether the previous run of the scenario created the baseline
    \* FuzzySet + FuzzySet and sum() (utils.py:72-81)
    lists,            \* the Python lists that hold the items of the sets, by object id
    left,             \* the left operand a: its data (a list id), rtol and atol
    right,            \* the right operand b
    total,            \* the set the expression returned
    sum_op,           \* the expression evaluated last
    lists_before,     \* the lists as they were when the evaluation started
    \* the axes scope (pltutils.py:15-37) and pyplot's current axes
    current_ax,       \* plt.gca(): the axes pyplot considers active
    scopes,           \* the axes scopes that are open, innermost last: [previous_ax, ax]
    unwinding,        \* whether an exception raised in a body is propagating
    just_left,        \* the scope the last step left, and how
    \* StructureMap.plot: to_radii (results.py:230-240)
    rad_data,         \* the data array handed to to_radii
    site_radius,      \* the site_radius argument of plot: a number or a (min, max) pair
    radii,            \* what to_radii returned or raised
    \* SpatialMap and StructureMap (results.py:21-206)
    arrays,           \* the numpy arrays, by object id 1..Len(arrays)
    map,              \* the original map: its class and the ids of the arrays it holds
    map_call,         \* the last call made on the original map
    derived,          \* what that call returned or raised
    arrays_at_init    \* the arrays as they were when the original map was constructed

fuzzyVars == <<data, rtol, atol, call, ret, old>>
defaultsVars == <<heap, options, defaults_dict, defaults_kwargs, result, heap_at_call>>

figureVars == <<test, pc, rc, units, fs, passed, tol, remove_text, original_rc,
                original_units, fig, raised, rendered, compared, fs_at_exit, cmp_error,
                adopted>>

sumVars == <<lists, left, right, total, sum_op, lists_before>>

axesVars == <<current_ax, scopes, unwinding, just_left>>

radiiVars == <<rad_data, site_radius, radii>>

mapVars == <<arrays, map, map_call, derived, arrays_at_init>>

vars == <<fuzzyVars, defaultsVars, figureVars, sumVars, axesVars, radiiVars, mapVars>>

\* what the operations of one part of the library leave alone
exceptFuzzy == <<defaultsVars, figureVars, sumVars, axesVars, radiiVars, mapVars>>
exceptDefaults == <<fuzzyVars, figureVars, sumVars, axesVars, radiiVars, mapVars>>
exceptFigure == <<fuzzyVars, defaultsVars, sumVars, axesVars, radiiVars, mapVars>>
exceptSum == <<fuzzyVars, defaultsVars, figureVars, axesVars, radiiVars, mapVars>>
exceptAxes == <<fuzzyVars, defaultsVars, figureVars, sumVars, radiiVars, mapVars>>
exceptRadii == <<fuzzyVars, defaultsVars, figureVars, sumVars, axesVars, mapVars>>
exceptMap == <<fuzzyVars, defaultsVars, figureVars, sumVars, axesVars, radiiVars>>

----------------------------------------------------------------------------
(* Bounds *)

\* the components of an item range over -1 .. MaxVal
MaxVal == 0
\* the longest stored sequence and the longest iterable handed to a call
MaxLen == 2
\* the largest tolerance
MaxTol == 1
\* the largest value of an option
MaxOptVal == 1
\* the darkest artwork a test body draws
MaxPix == 1
\* the number of image sizes
MaxShape == 2
\* the largest comparison tolerance handed to __call__
MaxFigTol == 1

None == "None"

Abs(x) == IF x < 0 THEN 0 - x ELSE x

Vals == (0 - 1) .. MaxVal
\* an item is a vector of two components
Items == Vals \X Vals
Tols == 0 .. MaxTol

RECURSIVE SeqsUpTo(_, _)
SeqsUpTo(S, n) ==
    IF n = 0 THEN {<<>>}
    ELSE LET shorter == SeqsUpTo(S, n - 1)
         IN  shorter \cup {Append(s, x) : s \in {t \in shorter : Len(t) = n - 1}, x \in S}

Iterables == SeqsUpTo(Items, MaxLen)
\* the iterables of at most n items
IterablesUpTo == [n \in 0..MaxLen |-> {s \in Iterables : Len(s) <= n}]

\* a set object that does not exist
NoSet == [data |-> 0, rtol |-> 0, atol |-> 0]

\* no sets to add up
SumIdle ==
    /\ lists = <<>>
    /\ left = NoSet
    /\ right = NoSet
    /\ total = NoSet
    /\ sum_op = "none"
    /\ lists_before = <<>>

\* no scope has been left by the last step
NoScope == [previous_ax |-> 0, ax |-> 0, by |-> "none"]

\* pyplot is not in use
AxesIdle ==
    /\ current_ax = 0
    /\ scopes = <<>>
    /\ unwinding = FALSE
    /\ just_left = NoScope

\* a radius that is a single number r is [pair |-> FALSE, min |-> r, max |-> r]
NoRadius == [pair |-> FALSE, min |-> 0, max |-> 0]
\* to_radii has not been called
NotComputed == [raises |-> "none", kind |-> "none", value |-> <<>>]

\* nothing is being plotted
RadiiIdle ==
    /\ rad_data = <<>>
    /\ site_radius = NoRadius
    /\ radii = NotComputed

\* a sparse matrix of n x n sites: the (row, column) pairs of its stored entries in
\* row-major order, and the id of the array of their values; sites are numbered
\* from 1 here, from 0 in Python
NoCsr == [n |-> 0, indices |-> <<>>, data |-> 0]
\* a map object that does not exist
NoMap == [cls |-> "none", data |-> 0, x |-> 0, y |-> 0, z |-> 0, sublattices |-> 0,
          hoppings |-> NoCsr, boundaries |-> <<>>]
NoCall == [op |-> "none", idx |-> <<>>, limits |-> <<>>, v_min |-> 0, v_max |-> 0]
NoResult == [raises |-> "none", obj |-> NoMap]

\* no map exists
MapIdle ==
    /\ arrays = <<>>
    /\ map = NoMap
    /\ map_call = NoCall
    /\ derived = NoResult
    /\ arrays_at_init = <<>>

----------------------------------------------------------------------------
(* AssertFigure: images, files, figures and the global style state *)

\* an image file holds an image of some size and darkness; NoFile is no file
Images == [shape : 1..MaxShape, pix : 0..(MaxPix + 1)]
NoFile == [shape |-> 0, pix |-> 0]
exists(file) == file.shape # 0

\* a figure has a size, artwork and possibly text; NoFig is no open figure
Figures == [shape : 1..MaxShape, pix : 0..MaxPix, text : BOOLEAN]
NoFig == [shape |-> 0, pix |-> 0, text |-> FALSE]
\* plt.figure(): a new, empty figure of the default size
BlankFig == [shape |-> 1, pix |-> 0, text |-> FALSE]

\* tests/utils/path.py: the path of a test's image, fixed by the test's identity,
\* the directory and the variant
path_from_fixture(request, prefix, variant) == <<request, prefix, variant>>

Request == "test_plot_sites"
BaselinePath == path_from_fixture(Request, "baseline_plots", "")
\* reportfile(variant) of AssertFigure.report
reportfile(variant) == path_from_fixture(Request, "failed", variant)
Paths == {BaselinePath, reportfile("_actual"), reportfile("_baseline"), reportfile("_diff")}

\* the style state: the rc parameters a style sheet sets, and the backend
EmptyRc == [style |-> "unset", backend |-> "unset"]
UserRc == [style |-> "classic", backend |-> "TkAgg"]
UserUnits == {"date"}

NoCompare == [expected |-> NoFile, actual |-> NoFile]
NoError == [raises |-> "none", message |-> ""]

Tests == [tol : 0..MaxFigTol, remove_text : BOOLEAN, draws : Figures,
          touches : BOOLEAN, raises : BOOLEAN]
NoTest == [tol |-> 0, remove_text |-> FALSE, draws |-> NoFig,
           touches |-> FALSE, raises |-> FALSE]

\* no test is running
FigureIdle ==
    /\ test = NoTest
    /\ pc = "idle"
    /\ rc = UserRc
    /\ units = UserUnits
    /\ fs = [p \in Paths |-> NoFile]
    /\ passed = FALSE
    /\ tol = 0
    /\ remove_text = FALSE
    /\ original_rc = EmptyRc
    /\ original_units = {}
    /\ fig = NoFig
    /\ raised = "none"
    /\ rendered = NoFile
    /\ compared = NoCompare
    /\ fs_at_exit = [p \in Paths |-> NoFile]
    /\ cmp_error = NoError
    /\ adopted = FALSE

----------------------------------------------------------------------------
(* FuzzySet *)

\* a plausible slip: the tolerance is taken relative to the tested item
allclose_item_reference(a, b, rt, at) ==
    \A k \in 1..2 : Abs(a[k] - b[k]) <= at + rt * Abs(a[k])

\* np.allclose(a, b, rtol, atol): |a - b| <= atol + rtol * |b| in every component
allclose(a, b, rt, at) ==
    \A k \in 1..2 : Abs(a[k] - b[k]) <= at + rt * Abs(b[k])

\* a plausible slip: the item is tested against the first stored item only
contains_first_only(d, item, rt, at) ==
    d # <<>> /\ allclose(item, d[1], rt, at)

\* FuzzySet.__contains__
contains(d, item, rt, at) ==
    \E i \in 1..Len(d) : allclose(item, d[i], rt, at)

\* a plausible slip: the item is appended without the membership test
add_unconditional(d, item, rt, at) == Append(d, item)

\* a plausible slip: a near-duplicate replaces the stored item it is close to
add_last_wins(d, item, rt, at) ==
    IF ~contains(d, item, rt, at) THEN Append(d, item)
    ELSE [i \in 1..Len(d) |-> IF allclose(item, d[i], rt, at) THEN item ELSE d[i]]

\* FuzzySet.add
add(d, item, rt, at) ==
    IF ~contains(d, item, rt, at) THEN Append(d, item) ELSE d

\* a plausible slip: every item of `other` is tested against the set as it was
\* when the merge started
iadd_against_original(d, other, rt, at) ==
    d \o SelectSeq(other, LAMBDA item : ~contains(d, item, rt, at))

\* FuzzySet.__iadd__: the loop `for item in other: self.add(item)`
RECURSIVE iadd(_, _, _, _)
iadd(d, other, rt, at) ==
    IF other = <<>> THEN d
    ELSE iadd(add(d, Head(other), rt, at), Tail(other), rt, at)

\* the loop of FuzzySet.__init__, run from the k-th item of the iterable
RECURSIVE initLoop(_, _, _, _, _)
initLoop(d, iterable, k, rt, at) ==
    IF k > Len(iterable) THEN d
    ELSE initLoop(add(d, iterable[k], rt, at), iterable, k + 1, rt, at)

\* FuzzySet.__init__: self.data after construction; `given` is false when the
\* iterable is left at its default None, and `if iterable:` is false for None
\* and for an empty sequence
init(given, iterable, rt, at) ==
    IF given /\ iterable # <<>>
    THEN initLoop(<<>>, iterable, 1, rt, at)
    ELSE <<>>

\* FuzzySet.__getitem__: Python indexes a list of n items by 0..n-1, and by
\* -n..-1 counted from the end
getitem(d, index) ==
    IF index >= 0 THEN d[index + 1] ELSE d[Len(d) + index + 1]

\* FuzzySet.__len__
len(d) == Len(d)

\* with_defaults is not running
DefaultsIdle ==
    /\ heap = <<>>
    /\ options = 0
    /\ defaults_dict = 0
    /\ defaults_kwargs = 0
    /\ result = 0
    /\ heap_at_call = <<>>

InitFuzzySet ==
    /\ DefaultsIdle
    /\ FigureIdle
    /\ SumIdle
    /\ AxesIdle
    /\ RadiiIdle
    /\ MapIdle
    /\ rtol \in Tols
    /\ atol \in Tols
    /\ \E given \in BOOLEAN, iterable \in Iterables :
          /\ given = FALSE => iterable = <<>>
          /\ data = init(given, iterable, rtol, atol)
          /\ call = [op |-> "init", given |-> given, arg |-> iterable]
    /\ ret = None
    /\ old = <<>>

Add ==
    \E item \in Items :
       /\ Len(data) < MaxLen
       /\ data' = add(data, item, rtol, atol)
       /\ call' = [op |-> "add", given |-> TRUE, arg |-> item]
       /\ ret' = None
       /\ old' = data
       /\ UNCHANGED <<rtol, atol>>
       /\ UNCHANGED exceptFuzzy

IAdd ==
    \E other \in IterablesUpTo[MaxLen - Len(data)] :
       /\ data' = iadd(data, other, rtol, atol)
       /\ call' = [op |-> "iadd", given |-> TRUE, arg |-> other]
       /\ ret' = None
       /\ old' = data
       /\ UNCHANGED <<rtol, atol>>
       /\ UNCHANGED exceptFuzzy

Contains ==
    \E item \in Items :
       /\ call' = [op |-> "contains", given |-> TRUE, arg |-> item]
       /\ ret' = contains(data, item, rtol, atol)
       /\ old' = data
       /\ UNCHANGED <<data, rtol, atol>>
       /\ UNCHANGED exceptFuzzy

GetItem ==
    \E index \in (0 - Len(data)) .. (Len(data) - 1) :
       /\ call' = [op |-> "getitem", given |-> TRUE, arg |-> index]
       /\ ret' = getitem(data, index)
       /\ old' = data
       /\ UNCHANGED <<data, rtol, atol>>
       /\ UNCHANGED exceptFuzzy

LenOp ==
    /\ call' = [op |-> "len", given |-> TRUE, arg |-> None]
    /\ ret' = len(data)
    /\ old' = data
    /\ UNCHANGED <<data, rtol, atol>>
    /\ UNCHANGED exceptFuzzy

NextFuzzySet ==
    \/ Add
    \/ IAdd
    \/ Contains
    \/ GetItem
    \/ LenOp

SpecFuzzySet == InitFuzzySet /\ [][NextFuzzySet]_vars

----------------------------------------------------------------------------
(* with_defaults *)

Keys == {"hello", "world", "yes"}
OptVals == 0 .. MaxOptVal
\* the value of a key a mapping does not hold
Absent == 0 - 1
\* a mapping gives every key its value, or Absent
Mappings == [Keys -> OptVals \cup {Absent}]
EmptyMapping == [k \in Keys |-> Absent]

\* the truth value of a dict: false when it is empty
truthy(m) == \E k \in Keys : m[k] # Absent

\* dict(a, **b): a new dict holding a's items, overwritten by b's
dict(a, b) == [k \in Keys |-> IF b[k] # Absent THEN b[k] ELSE a[k]]

\* a plausible slip: the keyword defaults are layered over defaults_dict
with_defaults_kwargs_first(h, o, dd, kw) ==
    LET opts == IF o # 0 THEN h[o] ELSE EmptyMapping
        mid  == IF dd # 0 THEN dict(h[dd], h[kw]) ELSE h[kw]
        h1   == Append(h, dict(mid, opts))
    IN  [heap |-> h1, result |-> Len(h1)]

\* a plausible slip: the defaults are filled into the caller's options in place
with_defaults_in_place(h, o, dd, kw) ==
    LET h0   == IF o # 0 THEN h ELSE Append(h, EmptyMapping)
        o0   == IF o # 0 THEN o ELSE Len(h0)
        mid  == IF dd # 0 THEN dict(h0[dd], h0[o0]) ELSE h0[o0]
        h1   == [h0 EXCEPT ![o0] = dict(h0[kw], mid)]
    IN  [heap |-> h1, result |-> o0]

\* with_defaults: the heap when it returns and the id of the mapping returned
with_defaults(h, o, dd, kw) ==
    LET \* line 17: options = options if options else {}
        keep == o # 0 /\ truthy(h[o])
        h1   == IF keep THEN h ELSE Append(h, EmptyMapping)
        o1   == IF keep THEN o ELSE Len(h1)
        \* lines 18-19: if defaults_dict: options = dict(defaults_dict, **options)
        fill == dd # 0 /\ truthy(h1[dd])
        h2   == IF fill THEN Append(h1, dict(h1[dd], h1[o1])) ELSE h1
        o2   == IF fill THEN Len(h2) ELSE o1
        \* line 20: return dict(defaults_kwargs, **options)
        h3   == Append(h2, dict(h2[kw], h2[o2]))
    IN  [heap |-> h3, result |-> Len(h3)]

\* FuzzySet does not exist
FuzzyIdle ==
    /\ data = <<>>
    /\ rtol = 0
    /\ atol = 0
    /\ call = [op |-> "none", given |-> FALSE, arg |-> <<>>]
    /\ ret = None
    /\ old = <<>>

\* a caller about to call with_defaults(options, defaults_dict, **defaults_kwargs)
InitWithDefaults ==
    /\ FuzzyIdle
    /\ FigureIdle
    /\ SumIdle
    /\ AxesIdle
    /\ RadiiIdle
    /\ MapIdle
    /\ \E og \in BOOLEAN, dg \in BOOLEAN, mo \in Mappings, md \in Mappings, mk \in Mappings :
          /\ og = FALSE => mo = EmptyMapping
          /\ dg = FALSE => md = EmptyMapping
          /\ heap = (IF og THEN <<mo>> ELSE <<>>) \o (IF dg THEN <<md>> ELSE <<>>) \o <<mk>>
          /\ options = IF og THEN 1 ELSE 0
          /\ defaults_dict = IF dg THEN Len(heap) - 1 ELSE 0
          /\ defaults_kwargs = Len(heap)
    /\ result = 0
    /\ heap_at_call = heap

WithDefaults ==
    /\ result = 0
    /\ LET r == with_defaults(heap, options, defaults_dict, defaults_kwargs)
       IN  /\ heap' = r.heap
           /\ result' = r.result
    /\ heap_at_call' = heap
    /\ UNCHANGED <<options, defaults_dict, defaults_kwargs>>
    /\ UNCHANGED exceptDefaults

NextWithDefaults == WithDefaults

SpecWithDefaults == InitWithDefaults /\ [][NextWithDefaults]_vars

----------------------------------------------------------------------------
(* AssertFigure *)

\* _remove_text: titles, labels and tick labels are emptied
_remove_text(figure) == [figure EXCEPT !.text = FALSE]

\* plt.savefig: the image of the figure; text, when there is any, darkens it
savefig(figure) ==
    [shape |-> figure.shape, pix |-> figure.pix + (IF figure.text THEN 1 ELSE 0)]

\* what compare_images returns: None, or the failure data
NoFailure == [mismatch |-> FALSE, has_diff |-> FALSE,
              actual |-> NoFile, expected |-> NoFile, diff |-> NoFile]

\* matplotlib.testing.compare.compare_images(expected, actual, tol), as __exit__
\* relies on it: None when the images agree within tol, the failure data with a
\* difference image otherwise, a ValueError naming the broadcast when the image
\* sizes differ; fault is an error the library raises for a reason of its own
compare_images(expected, actual, tolerance, fault) ==
    IF fault # "none"
    THEN [raises |-> fault, message |-> "other", failure |-> NoFailure]
    ELSE IF expected.shape # actual.shape
    THEN [raises |-> "ValueError", message |-> "could not be broadcast",
          failure |-> NoFailure]
    ELSE IF Abs(expected.pix - actual.pix) <= tolerance
    THEN [raises |-> "none", message |-> "", failure |-> NoFailure]
    ELSE [raises |-> "none", message |-> "",
          failure |-> [mismatch |-> TRUE, has_diff |-> TRUE,
                       actual |-> actual, expected |-> expected,
                       diff |-> [shape |-> expected.shape,
                                 pix |-> Abs(expected.pix - actual.pix)]]]

Faults == {"none", "ValueError", "OtherError"}

\* a plausible slip: every ValueError is taken for a mismatch
caught_any_value_error(cmp) == cmp.raises = "ValueError"

\* lines 92-96: the ValueError that __exit__ turns into a mismatch
caught(cmp) ==
    cmp.raises = "ValueError" /\ cmp.message = "could not be broadcast"

\* a plausible slip: the stale report files are left where they are
report_keeps_stale(files, failure_data) ==
    IF failure_data.mismatch
    THEN [files EXCEPT ![reportfile("_actual")] = failure_data.actual,
                       ![reportfile("_baseline")] = failure_data.expected,
                       ![reportfile("_diff")] =
                           IF failure_data.has_diff THEN failure_data.diff ELSE @]
    ELSE files

\* a plausible slip: the actual image is reported as the expected one too
report_actual_twice(files, failure_data) ==
    IF failure_data.mismatch
    THEN [files EXCEPT ![reportfile("_actual")] = failure_data.actual,
                       ![reportfile("_baseline")] = failure_data.actual,
                       ![reportfile("_diff")] =
                           IF failure_data.has_diff THEN failure_data.diff ELSE @]
    ELSE [files EXCEPT ![reportfile("_actual")] = NoFile,
                       ![reportfile("_baseline")] = NoFile,
                       ![reportfile("_diff")] = NoFile]

\* AssertFigure.report: the files after it
report(files, failure_data) ==
    IF failure_data.mismatch
    THEN [files EXCEPT ![reportfile("_actual")] = failure_data.actual,
                       ![reportfile("_baseline")] = failure_data.expected,
                       ![reportfile("_diff")] =
                           IF failure_data.has_diff THEN failure_data.diff ELSE @]
    ELSE [files EXCEPT ![reportfile("_actual")] = NoFile,
                       ![reportfile("_baseline")] = NoFile,
                       ![reportfile("_diff")] = NoFile]

\* a report left behind by an earlier session
StaleImage == [shape |-> 1, pix |-> MaxPix + 1]

\* a test scenario about to run: the fixture has made its AssertFigure
\* (__init__), the baseline is there or not, and so are old report files
InitAssertFigure ==
    /\ FuzzyIdle
    /\ DefaultsIdle
    /\ SumIdle
    /\ AxesIdle
    /\ RadiiIdle
    /\ MapIdle
    /\ test \in Tests
    /\ pc = "created"
    /\ rc = UserRc
    /\ units = UserUnits
    /\ \E baseline \in Images \cup {NoFile}, stale \in BOOLEAN :
          fs = [p \in Paths |-> IF p = BaselinePath THEN baseline
                                ELSE IF stale THEN StaleImage ELSE NoFile]
    /\ passed = FALSE
    /\ tol = 0
    /\ remove_text = FALSE
    /\ original_rc = EmptyRc
    /\ original_units = {}
    /\ fig = NoFig
    /\ raised = "none"
    /\ rendered = NoFile
    /\ compared = NoCompare
    /\ fs_at_exit = fs
    /\ cmp_error = NoError
    /\ adopted = FALSE

\* AssertFigure.__call__
Call ==
    /\ pc = "created"
    /\ pc' = "called"
    /\ tol' = test.tol
    /\ remove_text' = test.remove_text
    /\ UNCHANGED <<test, rc, units, fs, passed, original_rc, original_units, fig,
                   raised, rendered, compared, fs_at_exit, cmp_error, adopted>>
    /\ UNCHANGED exceptFigure

\* AssertFigure.__enter__, with _enter_style
Enter ==
    /\ pc = "called"
    /\ pc' = "entered"
    /\ original_rc' = rc
    /\ original_units' = units
    /\ rc' = [style |-> "tbplot", backend |-> "Agg"]
    /\ fig' = BlankFig
    /\ UNCHANGED <<test, units, fs, passed, tol, remove_text, raised, rendered,
                   compared, fs_at_exit, cmp_error, adopted>>
    /\ UNCHANGED exceptFigure

\* the body of the with statement: it draws, it may change the style state, and
\* it completes or raises
Body ==
    /\ pc = "entered"
    /\ pc' = IF test.raises THEN "body_raised" ELSE "body_done"
    /\ fig' = test.draws
    /\ rc' = IF test.touches THEN [rc EXCEPT !.style = "body"] ELSE rc
    /\ units' = IF test.touches THEN units \cup {"body"} ELSE units
    /\ UNCHANGED <<test, fs, passed, tol, remove_text, original_rc, original_units,
                   raised, rendered, compared, fs_at_exit, cmp_error, adopted>>
    /\ UNCHANGED exceptFigure

\* a plausible slip: __exit__ returns a true value, which swallows the exception
ExitSwallowsException ==
    /\ pc = "body_raised"
    /\ pc' = "exited"
    /\ raised' = "none"
    /\ rendered' = NoFile
    /\ compared' = NoCompare
    /\ cmp_error' = NoError
    /\ fs_at_exit' = fs
    /\ UNCHANGED <<test, rc, units, fs, passed, tol, remove_text, original_rc,
                   original_units, fig, adopted>>
    /\ UNCHANGED exceptFigure

\* AssertFigure.__exit__ when the body raised (lines 72-73)
ExitAfterException ==
    /\ pc = "body_raised"
    /\ pc' = "exited"
    /\ raised' = "BodyError"
    /\ rendered' = NoFile
    /\ compared' = NoCompare
    /\ cmp_error' = NoError
    /\ fs_at_exit' = fs
    /\ UNCHANGED <<test, rc, units, fs, passed, tol, remove_text, original_rc,
                   original_units, fig, adopted>>
    /\ UNCHANGED exceptFigure

\* AssertFigure.__exit__ when a baseline exists (lines 75-100, 107-108)
ExitCompare ==
    /\ pc = "body_done"
    /\ exists(fs[BaselinePath])
    /\ \E fault \in Faults :
          LET figure == IF remove_text THEN _remove_text(fig) ELSE fig
              actual == savefig(figure)
              cmp    == compare_images(fs[BaselinePath], actual, tol, fault)
              broadcast == caught(cmp)
              failure_data ==
                  IF broadcast
                  THEN [mismatch |-> TRUE, has_diff |-> FALSE, actual |-> actual,
                        expected |-> fs[BaselinePath], diff |-> NoFile]
                  ELSE cmp.failure
          IN  /\ rendered' = actual
              /\ compared' = [expected |-> fs[BaselinePath], actual |-> actual]
              /\ cmp_error' = [raises |-> cmp.raises, message |-> cmp.message]
              /\ IF cmp.raises # "none" /\ ~broadcast
                 THEN \* the error of compare_images leaves __exit__
                      /\ raised' = cmp.raises
                      /\ fig' = figure
                      /\ UNCHANGED <<fs, rc, units>>
                 ELSE IF failure_data.mismatch
                 THEN \* lines 98-100
                      /\ fs' = report(fs, failure_data)
                      /\ raised' = "AssertionError"
                      /\ fig' = figure
                      /\ UNCHANGED <<rc, units>>
                 ELSE \* lines 107-108: plt.close() and _exit_style()
                      /\ raised' = "none"
                      /\ fig' = NoFig
                      /\ rc' = original_rc
                      /\ units' = original_units
                      /\ UNCHANGED fs
    /\ pc' = "exited"
    /\ fs_at_exit' = fs
    /\ UNCHANGED <<test, passed, tol, remove_text, original_rc, original_units, adopted>>
    /\ UNCHANGED exceptFigure

\* AssertFigure.__exit__ when no baseline exists (lines 75-87, 101-108)
ExitNewBaseline ==
    /\ pc = "body_done"
    /\ ~exists(fs[BaselinePath])
    /\ LET figure == IF remove_text THEN _remove_text(fig) ELSE fig
           actual == savefig(figure)
       IN  /\ rendered' = actual
           /\ fs' = report([fs EXCEPT ![BaselinePath] = actual], NoFailure)
    /\ passed' = TRUE
    /\ compared' = NoCompare
    /\ cmp_error' = NoError
    /\ raised' = "none"
    /\ fig' = NoFig
    /\ rc' = original_rc
    /\ units' = original_units
    /\ pc' = "exited"
    /\ fs_at_exit' = fs
    /\ UNCHANGED <<test, tol, remove_text, original_rc, original_units, adopted>>
    /\ UNCHANGED exceptFigure

\* the assert_figure fixture of conftest.py makes a new AssertFigure (__init__)
\* for the next run of the scenario
NewRun ==
    /\ pc = "exited"
    /\ pc' = "created"
    /\ passed' = FALSE
    /\ original_rc' = EmptyRc
    /\ original_units' = {}
    /\ tol' = 0
    /\ remove_text' = FALSE
    /\ fig' = NoFig
    /\ raised' = "none"
    /\ rendered' = NoFile
    /\ compared' = NoCompare
    /\ cmp_error' = NoError
    /\ fs_at_exit' = fs
    /\ adopted' = passed
    /\ UNCHANGED <<test, rc, units, fs>>
    /\ UNCHANGED exceptFigure

\* AssertFigure.__exit__, by the path it takes
Exit ==
    \/ ExitAfterException
    \/ ExitCompare
    \/ ExitNewBaseline

NextAssertFigure ==
    \/ Call
    \/ Enter
    \/ Body
    \/ Exit
    \/ NewRun

SpecAssertFigure == InitAssertFigure /\ [][NextAssertFigure]_vars

----------------------------------------------------------------------------
(* FuzzySet + FuzzySet and sum() *)

\* the longest iterable an operand of + is built from
MaxSumLen == 1

\* the int 0 that sum() starts from: not a FuzzySet
Zero == NoSet
isinstance(other) == other # Zero

\* copy.copy(self): a new FuzzySet whose attributes are the attributes of self,
\* so that its data is the very list self.data is
copy_copy(self) == [data |-> self.data, rtol |-> self.rtol, atol |-> self.atol]

\* FuzzySet.__add__: the lists after the call, and the set returned
__add__(ls, self, other) ==
    IF isinstance(other)
    THEN LET r == copy_copy(self)
         IN  [lists |-> [ls EXCEPT ![r.data] = iadd(ls[r.data], ls[other.data], r.rtol, r.atol)],
              ret |-> r]
    ELSE [lists |-> ls, ret |-> copy_copy(self)]

\* FuzzySet.__radd__
__radd__(ls, self, other) == __add__(ls, self, other)

\* the builtin sum(sets): acc = 0, then acc = acc + x for each x; int + FuzzySet
\* is x.__radd__(acc), FuzzySet + FuzzySet is acc.__add__(x)
RECURSIVE sum_from(_, _, _)
sum_from(ls, acc, sets) ==
    IF sets = <<>> THEN [lists |-> ls, ret |-> acc]
    ELSE LET x == Head(sets)
             r == IF isinstance(acc) THEN __add__(ls, acc, x) ELSE __radd__(ls, x, acc)
         IN  sum_from(r.lists, r.ret, Tail(sets))

sum(ls, sets) == sum_from(ls, Zero, sets)

\* a = FuzzySet(ia, rt, at); b = FuzzySet(ib, rt, at)
InitFuzzySum ==
    /\ FuzzyIdle
    /\ DefaultsIdle
    /\ FigureIdle
    /\ AxesIdle
    /\ RadiiIdle
    /\ MapIdle
    /\ \E rt \in Tols, at \in Tols, ia \in IterablesUpTo[MaxSumLen], ib \in IterablesUpTo[MaxSumLen] :
          /\ lists = <<init(TRUE, ia, rt, at), init(TRUE, ib, rt, at)>>
          /\ left = [data |-> 1, rtol |-> rt, atol |-> at]
          /\ right = [data |-> 2, rtol |-> rt, atol |-> at]
    /\ total = NoSet
    /\ sum_op = "none"
    /\ lists_before = lists

\* c = a + b
Plus ==
    /\ LET r == __add__(lists, left, right)
       IN  /\ lists' = r.lists
           /\ total' = r.ret
    /\ sum_op' = "a + b"
    /\ lists_before' = lists
    /\ UNCHANGED <<left, right>>
    /\ UNCHANGED exceptSum

\* c = a + 0
PlusInt ==
    /\ LET r == __add__(lists, left, Zero)
       IN  /\ lists' = r.lists
           /\ total' = r.ret
    /\ sum_op' = "a + 0"
    /\ lists_before' = lists
    /\ UNCHANGED <<left, right>>
    /\ UNCHANGED exceptSum

\* c = sum([a, b])
Sum ==
    /\ LET r == sum(lists, <<left, right>>)
       IN  /\ lists' = r.lists
           /\ total' = r.ret
    /\ sum_op' = "sum([a, b])"
    /\ lists_before' = lists
    /\ UNCHANGED <<left, right>>
    /\ UNCHANGED exceptSum

NextFuzzySum ==
    \/ Plus
    \/ PlusInt
    \/ Sum

SpecFuzzySum == InitFuzzySum /\ [][NextFuzzySum]_vars

----------------------------------------------------------------------------
(* pltutils.axes: a scope that makes an axes the current one *)

\* the number of axes of the figure
MaxAxes == 2
\* the deepest nesting of axes scopes
MaxDepth == 2

Axes == 1..MaxAxes

\* plt.sca(ax)
sca(ax) == ax

\* a figure with its axes exists and one of them is current
InitAxes ==
    /\ FuzzyIdle
    /\ DefaultsIdle
    /\ FigureIdle
    /\ SumIdle
    /\ RadiiIdle
    /\ MapIdle
    /\ current_ax \in Axes
    /\ scopes = <<>>
    /\ unwinding = FALSE
    /\ just_left = NoScope

\* `with axes(ax):` is entered: lines 34-35, up to the yield
EnterAxes ==
    \E ax \in Axes :
       /\ ~unwinding
       /\ Len(scopes) < MaxDepth
       /\ scopes' = Append(scopes, [previous_ax |-> current_ax, ax |-> ax])
       /\ current_ax' = sca(ax)
       /\ just_left' = NoScope
       /\ UNCHANGED unwinding
       /\ UNCHANGED exceptAxes

\* the body of the innermost scope plots on another axes, which makes it current
BodySca ==
    \E ax \in Axes :
       /\ ~unwinding
       /\ scopes # <<>>
       /\ current_ax' = sca(ax)
       /\ just_left' = NoScope
       /\ UNCHANGED <<scopes, unwinding>>
       /\ UNCHANGED exceptAxes

\* the body of the innermost scope ends: the generator resumes after the yield, line 37
ExitAxes ==
    /\ ~unwinding
    /\ scopes # <<>>
    /\ LET scope == scopes[Len(scopes)]
       IN  /\ current_ax' = sca(scope.previous_ax)
           /\ just_left' = [previous_ax |-> scope.previous_ax, ax |-> scope.ax, by |-> "return"]
    /\ scopes' = SubSeq(scopes, 1, Len(scopes) - 1)
    /\ UNCHANGED unwinding
    /\ UNCHANGED exceptAxes

\* the body of the innermost scope raises
BodyRaises ==
    /\ ~unwinding
    /\ scopes # <<>>
    /\ unwinding' = TRUE
    /\ just_left' = NoScope
    /\ UNCHANGED <<current_ax, scopes>>
    /\ UNCHANGED exceptAxes

\* the exception leaves the innermost scope: it is thrown into the generator at
\* the yield of line 36, which no try statement encloses, so the generator ends
\* without running line 37
UnwindAxes ==
    /\ unwinding
    /\ scopes # <<>>
    /\ LET scope == scopes[Len(scopes)]
       IN  just_left' = [previous_ax |-> scope.previous_ax, ax |-> scope.ax, by |-> "exception"]
    /\ scopes' = SubSeq(scopes, 1, Len(scopes) - 1)
    /\ UNCHANGED <<current_ax, unwinding>>
    /\ UNCHANGED exceptAxes

\* the exception is caught, by the body of an enclosing scope or by the caller
Catch ==
    /\ unwinding
    /\ unwinding' = FALSE
    /\ just_left' = NoScope
    /\ UNCHANGED <<current_ax, scopes>>
    /\ UNCHANGED exceptAxes

NextAxes ==
    \/ EnterAxes
    \/ BodySca
    \/ ExitAxes
    \/ BodyRaises
    \/ UnwindAxes
    \/ Catch

SpecAxes == InitAxes /\ [][NextAxes]_vars

----------------------------------------------------------------------------
(* StructureMap.plot: the radii of the sites *)

\* the largest number of sites of a map
MaxSites == 2
\* the data values range over -1 .. MaxData
MaxData == 1
\* the radii range over 1 .. MaxRadius (in hundredths of a length unit)
MaxRadius == 2

DataVals == (0 - 1) .. MaxData
Radii == 1 .. MaxRadius
SiteRadii == {r \in [pair : BOOLEAN, min : Radii, max : Radii] : ~r.pair => r.min = r.max}

\* ndarray.min() and ndarray.max() of a non-empty array
min(a) == CHOOSE m \in {a[i] : i \in 1..Len(a)} : \A i \in 1..Len(a) : m <= a[i]
max(a) == CHOOSE m \in {a[i] : i \in 1..Len(a)} : \A i \in 1..Len(a) : m >= a[i]

\* np.allclose(maximum, 0) with the default rtol = 1e-5 and atol = 1e-8:
\* |maximum - 0| <= atol + rtol * |0|
allclose_zero(maximum) == Abs(maximum - 0) * 100000000 <= 1 + 0

\* a number is the quotient num / den; a division by zero shows as den = 0
Number(n) == [num |-> n, den |-> 1]

\* to_radii(data) inside plot(site_radius = r)
to_radii(d, r) ==
    \* lines 231-232
    IF ~r.pair THEN [raises |-> "none", kind |-> "scalar", value |-> <<Number(r.max)>>]
    \* line 234: the minimum of an empty array does not exist, data.min() raises
    ELSE IF Len(d) = 0 THEN [raises |-> "ValueError", kind |-> "none", value |-> <<>>]
    ELSE LET positive_data == [i \in 1..Len(d) |-> d[i] - min(d)]
             maximum == max(positive_data)
             delta == r.max - r.min
         IN  IF ~allclose_zero(maximum)
             \* line 238: site_radius[0] + delta * positive_data / maximum
             THEN [raises |-> "none", kind |-> "array",
                   value |-> [i \in 1..Len(d) |->
                                 [num |-> r.min * maximum + delta * positive_data[i],
                                  den |-> maximum]]]
             \* line 240
             ELSE [raises |-> "none", kind |-> "scalar", value |-> <<Number(r.max)>>]

InitRadii ==
    /\ FuzzyIdle
    /\ DefaultsIdle
    /\ FigureIdle
    /\ SumIdle
    /\ AxesIdle
    /\ MapIdle
    /\ rad_data \in SeqsUpTo(DataVals, MaxSites)
    /\ site_radius \in SiteRadii
    /\ radii = NotComputed

ToRadii ==
    /\ radii' = to_radii(rad_data, site_radius)
    /\ UNCHANGED <<rad_data, site_radius>>
    /\ UNCHANGED exceptRadii

NextRadii == ToRadii

SpecRadii == InitRadii /\ [][NextRadii]_vars

----------------------------------------------------------------------------
(* SpatialMap and StructureMap: indexing, cropping and clipping *)

\* the coordinates range over 0 .. MaxCoord
MaxCoord == 1
\* the largest number of stored entries of a hopping matrix
MaxEntries == 2
\* the hopping ids range over 0 .. MaxHop
MaxHop == 1

\* the positions a boolean mask selects, in ascending order
RECURSIVE nonzero(_)
nonzero(idx) ==
    IF idx = <<>> THEN <<>>
    ELSE LET front == nonzero(SubSeq(idx, 1, Len(idx) - 1))
         IN  IF idx[Len(idx)] THEN Append(front, Len(idx)) ELSE front

\* a[idx] for a boolean mask idx: a new array of the selected values
take(a, idx) == [k \in 1..Len(nonzero(idx)) |-> a[nonzero(idx)[k]]]

\* the number a retained site gets in the selection
renumber(idx, i) == CHOOSE k \in 1..Len(nonzero(idx)) : nonzero(idx)[k] = i

\* the state of _filter_csr_matrix between two of its lines: the arrays and
\* the local matrix m
\* line 190: m.data = m.data.copy()
data_copy(st) ==
    [arrays |-> Append(st.arrays, st.arrays[st.m.data]),
     m |-> [st.m EXCEPT !.data = Len(st.arrays) + 1]]

\* lines 191 and 193: m.data += k, in place
data_iadd(st, k) ==
    [arrays |-> [st.arrays EXCEPT ![st.m.data] = [i \in 1..Len(@) |-> @[i] + k]],
     m |-> st.m]

\* line 192: m = m[idx][:, idx], scipy's row and column selection by a boolean
\* mask. The result is a new matrix with new arrays. Whether a stored entry
\* whose value is zero survives depends on the version of scipy: selection by
\* matrix product eliminates it (eliminates = TRUE), direct selection keeps it.
slice(st, idx, eliminates) ==
    LET m == st.m
        values == st.arrays[m.data]
        kept == SelectSeq([p \in 1..Len(m.indices) |-> p],
                          LAMBDA p : /\ idx[m.indices[p][1]]
                                     /\ idx[m.indices[p][2]]
                                     /\ eliminates => values[p] # 0)
    IN  [arrays |-> Append(st.arrays, [k \in 1..Len(kept) |-> values[kept[k]]]),
         m |-> [n |-> Len(nonzero(idx)),
                indices |-> [k \in 1..Len(kept) |->
                                <<renumber(idx, m.indices[kept[k]][1]),
                                  renumber(idx, m.indices[kept[k]][2])>>],
                data |-> Len(st.arrays) + 1]]

_filter_csr_matrix_without_increment(arrs, csr, idx, eliminates) ==
    slice(data_copy([arrays |-> arrs, m |-> csr]), idx, eliminates)

_filter_csr_matrix_without_copy(arrs, csr, idx, eliminates) ==
    data_iadd(slice(data_iadd([arrays |-> arrs, m |-> csr], 1), idx, eliminates), 0 - 1)

\* StructureMap._filter_csr_matrix: the arrays after the call, and the matrix returned
_filter_csr_matrix(arrs, csr, idx, eliminates) ==
    LET \* line 189: m = copy(csr), a shallow copy: m.data is csr.data
        s1 == [arrays |-> arrs, m |-> csr]
        s2 == data_copy(s1)
        s3 == data_iadd(s2, 1)
        s4 == slice(s3, idx, eliminates)
    IN  data_iadd(s4, 0 - 1)

\* StructureMap._filter_boundary: b = copy(boundary) and then b.hoppings is
\* bound to the filtered matrix
_filter_boundary(arrs, boundary, idx, eliminates) ==
    LET r == _filter_csr_matrix(arrs, boundary.hoppings, idx, eliminates)
    IN  [arrays |-> r.arrays, b |-> [boundary EXCEPT !.hoppings = r.m]]

\* [self._filter_boundary(b, idx) for b in self.boundaries]
RECURSIVE filter_boundaries(_, _, _, _)
filter_boundaries(arrs, boundaries, idx, eliminates) ==
    IF boundaries = <<>> THEN [arrays |-> arrs, bs |-> <<>>]
    ELSE LET front == filter_boundaries(arrs, SubSeq(boundaries, 1, Len(boundaries) - 1),
                                        idx, eliminates)
             r == _filter_boundary(front.arrays, boundaries[Len(boundaries)], idx, eliminates)
         IN  [arrays |-> r.arrays, bs |-> Append(front.bs, r.b)]

\* cls(data, positions, sublattices, *rest): SpatialMap.__init__ takes no further
\* argument; StructureMap.__init__ requires hoppings and defaults boundaries to ().
\* The arrays are held as given (np.atleast_1d makes no copy of an array).
construct(cls, d, positions, subs, rest) ==
    LET base == [cls |-> cls, data |-> d, x |-> positions[1], y |-> positions[2],
                 z |-> positions[3], sublattices |-> subs,
                 hoppings |-> NoCsr, boundaries |-> <<>>]
    IN  IF cls = "SpatialMap"
        THEN IF Len(rest) = 0 THEN [raises |-> "none", obj |-> base]
             ELSE [raises |-> "TypeError", obj |-> NoMap]
        ELSE IF Len(rest) = 0 THEN [raises |-> "TypeError", obj |-> NoMap]
             ELSE [raises |-> "none",
                   obj |-> [base EXCEPT !.hoppings = rest[1],
                                        !.boundaries = IF Len(rest) >= 2 THEN rest[2] ELSE <<>>]]

\* the arrays after data[idx], x[idx], y[idx], z[idx] and sublattices[idx] were
\* made, in this order
select_arrays(arrs, self, idx) ==
    arrs \o <<take(arrs[self.data], idx), take(arrs[self.x], idx), take(arrs[self.y], idx),
              take(arrs[self.z], idx), take(arrs[self.sublattices], idx)>>

\* SpatialMap.__getitem__
SpatialMap_getitem(arrs, self, idx) ==
    LET n == Len(arrs)
    IN  [arrays |-> select_arrays(arrs, self, idx),
         ret |-> construct(self.cls, n + 1, <<n + 2, n + 3, n + 4>>, n + 5, <<>>)]

\* StructureMap.__getitem__
StructureMap_getitem(arrs, self, idx, eliminates) ==
    LET n == Len(arrs)
        h == _filter_csr_matrix(select_arrays(arrs, self, idx), self.hoppings, idx, eliminates)
        b == filter_boundaries(h.arrays, self.boundaries, idx, eliminates)
    IN  [arrays |-> b.arrays,
         ret |-> construct(self.cls, n + 1, <<n + 2, n + 3, n + 4>>, n + 5, <<h.m, b.bs>>)]

\* self[idx]: the method of the class of self
index(arrs, self, idx, eliminates) ==
    IF self.cls = "StructureMap" THEN StructureMap_getitem(arrs, self, idx, eliminates)
    ELSE SpatialMap_getitem(arrs, self, idx)

\* the loop of cropped, lines 95-99: limits is the sequence of the keyword
\* arguments, each [name, lo, hi]
RECURSIVE crop_mask_upper_inclusive(_, _, _)
crop_mask_upper_inclusive(arrs, self, limits) ==
    IF limits = <<>> THEN [i \in 1..Len(arrs[self.data]) |-> TRUE]
    ELSE LET idx == crop_mask_upper_inclusive(arrs, self, SubSeq(limits, 1, Len(limits) - 1))
             limit == limits[Len(limits)]
             v == arrs[self[limit.name]]
         IN  [i \in 1..Len(idx) |-> idx[i] /\ v[i] >= limit.lo /\ v[i] <= limit.hi]

RECURSIVE crop_mask(_, _, _)
crop_mask(arrs, self, limits) ==
    \* line 95: idx = np.ones(self.num_sites, dtype=np.bool)
    IF limits = <<>> THEN [i \in 1..Len(arrs[self.data]) |-> TRUE]
    ELSE LET idx == crop_mask(arrs, self, SubSeq(limits, 1, Len(limits) - 1))
             limit == limits[Len(limits)]
             \* line 97: v = getattr(self, name)
             v == arrs[self[limit.name]]
         IN  [i \in 1..Len(idx) |-> idx[i] /\ v[i] >= limit.lo /\ v[i] < limit.hi]

\* SpatialMap.cropped, inherited by StructureMap
cropped(arrs, self, limits, eliminates) ==
    index(arrs, self, crop_mask(arrs, self, limits), eliminates)

\* np.clip(a, v_min, v_max) = minimum(maximum(a, v_min), v_max): a new array
clip(a, v_min, v_max) ==
    [i \in 1..Len(a) |->
        LET raised_to == IF a[i] < v_min THEN v_min ELSE a[i]
        IN  IF raised_to > v_max THEN v_max ELSE raised_to]

\* SpatialMap.clipped, inherited by StructureMap
clipped(arrs, self, v_min, v_max) ==
    [arrays |-> Append(arrs, clip(arrs[self.data], v_min, v_max)),
     ret |-> construct(self.cls, Len(arrs) + 1, <<self.x, self.y, self.z>>,
                       self.sublattices, <<>>)]

Coords == 0 .. MaxCoord
HopIds == 0 .. MaxHop
Masks(n) == [1..n -> BOOLEAN]

\* the limits handed to cropped: none, or lo <= v < hi, for x and for y
Limits(name) ==
    {<<>>} \cup {<<[name |-> name, lo |-> lo, hi |-> hi]>> :
                    lo \in Coords, hi \in 0 .. (MaxCoord + 1)}
CropLimits == {lx \o ly : lx \in Limits("x"), ly \in Limits("y")}

\* the stored entries of a matrix in row-major order
RowMajor(S) ==
    CHOOSE s \in [1..Cardinality(S) -> S] :
       \A p, q \in 1..Cardinality(S) :
          p < q => \/ s[p][1] < s[q][1]
                   \/ s[p][1] = s[q][1] /\ s[p][2] < s[q][2]

\* a map of n sites with data d at the positions (xs, ys, -i) and alternating
\* sublattices; a StructureMap has the hoppings given by entries and values and,
\* if periodic, one boundary with the same entries and other hopping ids
NewMap(cls, n, d, xs, ys, entries, values, periodic) ==
    LET site == <<d, xs, ys, [i \in 1..n |-> 0 - i], [i \in 1..n |-> i % 2]>>
        csr(id) == [n |-> n, indices |-> entries, data |-> id]
        boundary == [shift |-> <<1, 0, 0>>, hoppings |-> csr(7)]
    IN  /\ arrays = site
                    \o (IF cls = "StructureMap" THEN <<values>> ELSE <<>>)
                    \o (IF periodic THEN <<[p \in 1..Len(values) |-> MaxHop - values[p]]>>
                        ELSE <<>>)
        /\ map = [cls |-> cls, data |-> 1, x |-> 2, y |-> 3, z |-> 4, sublattices |-> 5,
                  hoppings |-> IF cls = "StructureMap" THEN csr(6) ELSE NoCsr,
                  boundaries |-> IF periodic THEN <<boundary>> ELSE <<>>]
        /\ map_call = NoCall
        /\ derived = NoResult
        /\ arrays_at_init = arrays

\* a map of either class, of up to MaxSites sites: either the data or the
\* positions are arbitrary; a StructureMap has no hoppings here
InitSpatialMap ==
    /\ FuzzyIdle
    /\ DefaultsIdle
    /\ FigureIdle
    /\ SumIdle
    /\ AxesIdle
    /\ RadiiIdle
    /\ \E cls \in {"SpatialMap", "StructureMap"}, n \in 0..MaxSites :
          \/ \E d \in [1..n -> DataVals] :
                NewMap(cls, n, d, [i \in 1..n |-> 0], [i \in 1..n |-> 0], <<>>, <<>>, FALSE)
          \/ \E xs \in [1..n -> Coords], ys \in [1..n -> Coords] :
                NewMap(cls, n, [i \in 1..n |-> i], xs, ys, <<>>, <<>>, FALSE)

\* a StructureMap of MaxSites sites in a row, with arbitrary hoppings
InitStructureMap ==
    /\ FuzzyIdle
    /\ DefaultsIdle
    /\ FigureIdle
    /\ SumIdle
    /\ AxesIdle
    /\ RadiiIdle
    /\ \E S \in SUBSET ((1..MaxSites) \X (1..MaxSites)), periodic \in BOOLEAN :
          /\ Cardinality(S) <= MaxEntries
          /\ \E values \in [1..Cardinality(S) -> HopIds] :
                NewMap("StructureMap", MaxSites, [i \in 1..MaxSites |-> i],
                       [i \in 1..MaxSites |-> i - 1], [i \in 1..MaxSites |-> 0],
                       RowMajor(S), values, periodic)

\* new = original[idx]
IndexMap ==
    \E idx \in Masks(Len(arrays[map.data])), eliminates \in BOOLEAN :
       /\ map_call = NoCall
       /\ LET r == index(arrays, map, idx, eliminates)
          IN  /\ arrays' = r.arrays
              /\ derived' = r.ret
       /\ map_call' = [op |-> "getitem", idx |-> idx, limits |-> <<>>, v_min |-> 0, v_max |-> 0]
       /\ UNCHANGED <<map, arrays_at_init>>
       /\ UNCHANGED exceptMap

\* new = original.cropped(**limits)
Crop(limits, eliminates) ==
    /\ map_call = NoCall
    /\ LET r == cropped(arrays, map, limits, eliminates)
       IN  /\ arrays' = r.arrays
           /\ derived' = r.ret
    /\ map_call' = [op |-> "cropped", idx |-> <<>>, limits |-> limits, v_min |-> 0, v_max |-> 0]
    /\ UNCHANGED <<map, arrays_at_init>>
    /\ UNCHANGED exceptMap

\* new = original.cropped(x=[lo, hi], y=[lo, hi]), either limit possibly left out
Cropped == \E limits \in CropLimits, eliminates \in BOOLEAN : Crop(limits, eliminates)

\* new = original.cropped(x=[lo, hi]), or cropped()
CroppedX == \E limits \in Limits("x"), eliminates \in BOOLEAN : Crop(limits, eliminates)

\* new = original.clipped(v_min, v_max)
Clipped ==
    \E v_min \in DataVals, v_max \in DataVals :
       /\ map_call = NoCall
       /\ LET r == clipped(arrays, map, v_min, v_max)
          IN  /\ arrays' = r.arrays
              /\ derived' = r.ret
       /\ map_call' = [op |-> "clipped", idx |-> <<>>, limits |-> <<>>,
                       v_min |-> v_min, v_max |-> v_max]
       /\ UNCHANGED <<map, arrays_at_init>>
       /\ UNCHANGED exceptMap

\* del new: the arrays only the derived map holds are freed; the arrays of the
\* original, which were made first, stay
DelDerived ==
    /\ map_call # NoCall
    /\ arrays' = SubSeq(arrays, 1, Len(arrays_at_init))
    /\ map_call' = NoCall
    /\ derived' = NoResult
    /\ UNCHANGED <<map, arrays_at_init>>
    /\ UNCHANGED exceptMap

NextSpatialMap ==
    \/ IndexMap
    \/ Cropped
    \/ Clipped
    \/ DelDerived

SpecSpatialMap == InitSpatialMap /\ [][NextSpatialMap]_vars

NextStructureMap ==
    \/ IndexMap
    \/ CroppedX
    \/ DelDerived

SpecStructureMap == InitStructureMap /\ [][NextStructureMap]_vars

----------------------------------------------------------------------------
(* Claims about FuzzySet *)

\* |a - s| <= atol + rtol * |s| in every component, s being the reference
CloseTo(a, s) == \A k \in 1..2 : Abs(a[k] - s[k]) <= atol + rtol * Abs(s[k])

Range(d) == {d[i] : i \in 1..Len(d)}

\* C1: contains(item) returns true if and only if some stored item s has
\* |item - s| <= atol + rtol * |s| in every component, the stored item being
\* the reference; on an empty set it returns false for every item.
C1_ContainsIffClose ==
    call.op = "contains" =>
       /\ ret <=> \E s \in Range(old) : CloseTo(call.arg, s)
       /\ old = <<>> => ret = FALSE

\* C1 witness: contains returned true for an item that is within tolerance of
\* a stored item only when the stored item is the reference.
C1_Witness ==
    /\ call.op = "contains"
    /\ ret = TRUE
    /\ old # <<>>
    /\ \A s \in Range(old) : ~CloseTo(s, call.arg)

\* C2: every stored item is contained; add(v) of a stored v leaves the stored
\* sequence and its length as they were; add appends the item at the end
\* exactly when contains(item) is false, and changes nothing otherwise.
C2_AddStoredIsNoOp ==
    /\ \A v \in Range(data) : contains(data, v, rtol, atol)
    /\ call.op = "add" =>
          /\ call.arg \in Range(old) => data = old /\ Len(data) = Len(old)
          /\ contains(old, call.arg, rtol, atol) => data = old
          /\ ~contains(old, call.arg, rtol, atol) => data = Append(old, call.arg)

\* C2 witness: add was called with an item that was already stored.
C2_Witness ==
    /\ call.op = "add"
    /\ call.arg \in Range(old)
    /\ data = old

\* C3: when |a - b| <= atol + rtol * |a| in every component, inserting a and
\* then b into an empty set gives a set of length 1 whose item at index 0 is a.
C3_FirstInsertedWins ==
    /\ (call.op = "add" /\ Len(old) = 1 /\ CloseTo(call.arg, old[1]))
          => len(data) = 1 /\ getitem(data, 0) = old[1]
    /\ (call.op \in {"iadd", "init"} /\ old = <<>> /\ Len(call.arg) = 2
           /\ call.given /\ CloseTo(call.arg[2], call.arg[1]))
          => len(data) = 1 /\ getitem(data, 0) = call.arg[1]

\* C3 witness: b differs from a, is within tolerance of a, and was added to
\* the set holding only a.
C3_Witness ==
    /\ call.op = "add"
    /\ Len(old) = 1
    /\ call.arg # old[1]
    /\ CloseTo(call.arg, old[1])
    /\ data = old

\* C4 as stated: no two stored items at distinct positions are close, whichever
\* of the two is the reference.
C4_NoTwoStoredClose ==
    \A i, j \in 1..Len(data) : i # j => ~CloseTo(data[i], data[j])

\* C4 as amended: no stored item is close to an item stored before it, the
\* earlier item being the reference.
C4_LaterNotCloseToEarlier ==
    \A i, j \in 1..Len(data) : i < j => ~CloseTo(data[j], data[i])

\* C4 witness: two items are stored and the earlier one is within tolerance
\* of the later one when the later one is the reference.
C4_Witness ==
    /\ Len(data) = 2
    /\ CloseTo(data[1], data[2])
    /\ call.op \in {"add", "iadd", "init"}

\* the items of `other` added one by one, from the first to the n-th
RECURSIVE AddedOneByOne(_, _, _)
AddedOneByOne(d, other, n) ==
    IF n = 0 THEN d
    ELSE add(AddedOneByOne(d, other, n - 1), other[n], rtol, atol)

\* C5: merge(other) has the effect of add on each item of `other` in order,
\* each tested against the set as grown so far; a set constructed from an
\* initial sequence stores what an empty set merged with that sequence stores.
C5_MergeIsRepeatedAdd ==
    /\ call.op = "iadd" => data = AddedOneByOne(old, call.arg, Len(call.arg))
    /\ call.op = "init" =>
          data = IF call.given THEN iadd(<<>>, call.arg, rtol, atol) ELSE <<>>

\* C5 witness: the merged sequence held a near-duplicate of one of its own
\* earlier items, close to nothing stored before, and it was collapsed.
C5_Witness ==
    /\ call.op = "iadd"
    /\ Len(call.arg) = 2
    /\ call.arg[1] # call.arg[2]
    /\ CloseTo(call.arg[2], call.arg[1])
    /\ ~contains(old, call.arg[2], rtol, atol)
    /\ Len(data) = Len(old) + 1

----------------------------------------------------------------------------
(* Claims about with_defaults *)

\* the mapping an argument stood for when the call started; None is empty
ArgAtCall(id) == IF id # 0 THEN heap_at_call[id] ELSE EmptyMapping

Has(m, k) == m[k] # Absent

\* C6: the returned mapping holds exactly the keys of the three inputs, each
\* with the value of options if options holds the key (also when that value is
\* 0), else of defaults_dict if it holds the key, else of the keyword defaults;
\* options None or empty counts as an empty mapping.
C6_Precedence ==
    result # 0 =>
       \A k \in Keys :
          LET o  == ArgAtCall(options)
              dd == ArgAtCall(defaults_dict)
              kw == ArgAtCall(defaults_kwargs)
          IN  heap[result][k] =
                 IF Has(o, k) THEN o[k]
                 ELSE IF Has(dd, k) THEN dd[k]
                 ELSE IF Has(kw, k) THEN kw[k]
                 ELSE Absent

\* C6 witness: the documented example with its values renamed,
\* with_defaults({hello: 0}, {hello: 1, world: 0}, world=1, yes=1)
\* == {hello: 0, world: 0, yes: 1}.
C6_Witness ==
    /\ result # 0
    /\ options # 0
    /\ defaults_dict # 0
    /\ ArgAtCall(options) = [hello |-> 0, world |-> Absent, yes |-> Absent]
    /\ ArgAtCall(defaults_dict) = [hello |-> 1, world |-> 0, yes |-> Absent]
    /\ ArgAtCall(defaults_kwargs) = [hello |-> Absent, world |-> 1, yes |-> 1]
    /\ heap[result] = [hello |-> 0, world |-> 0, yes |-> 1]

\* C7: with_defaults leaves every input mapping as it was and returns a mapping
\* object that did not exist before the call, whether options is None, empty
\* or not, and whether defaults_dict is given or not.
C7_NoMutationNewMapping ==
    result # 0 =>
       /\ \A id \in 1..Len(heap_at_call) : heap[id] = heap_at_call[id]
       /\ result \notin {options, defaults_dict, defaults_kwargs}
       /\ result > Len(heap_at_call)

\* C7 witness: the call returned with non-empty options and defaults_dict given,
\* and the result differs from both in content.
C7_Witness ==
    /\ result # 0
    /\ options # 0
    /\ truthy(heap_at_call[options])
    /\ defaults_dict # 0
    /\ heap[result] # heap_at_call[options]
    /\ heap[result] # heap_at_call[defaults_dict]

----------------------------------------------------------------------------
(* Claims about AssertFigure *)

\* the image the scenario's body renders once __exit__ has dealt with its text
JustRendered ==
    savefig(IF test.remove_text THEN _remove_text(test.draws) ELSE test.draws)

ReportVariants == {"_actual", "_baseline", "_diff"}

\* C8: the scope restores rcParams and the units registry to the values
\* captured at entry on every exit path: a match, a newly created baseline, a
\* mismatch that raises an assertion failure, and a body that raises.
C8_StyleRestoredOnEveryExit ==
    pc = "exited" => rc = original_rc /\ units = original_units

\* C9: when the body completes and no baseline exists, the rendered image is
\* copied to the baseline path, the run is marked as passed, no assertion
\* failure is raised and the stale report files are removed; the next run of
\* the scenario finds that baseline and compares against it.
C9_FirstRunAdoptsBaseline ==
    /\ (pc = "exited" /\ raised # "BodyError" /\ ~exists(fs_at_exit[BaselinePath])) =>
          /\ exists(fs[BaselinePath])
          /\ fs[BaselinePath] = JustRendered
          /\ rendered = JustRendered
          /\ passed = TRUE
          /\ raised = "none"
          /\ \A v \in ReportVariants : ~exists(fs[reportfile(v)])
    /\ (pc = "exited" /\ adopted) =>
          /\ exists(fs_at_exit[BaselinePath])
          /\ compared = [expected |-> fs_at_exit[BaselinePath], actual |-> JustRendered]
          /\ passed = FALSE

\* C9 witness: the run after the one that created the baseline has compared its
\* image against that baseline.
C9_Witness ==
    /\ pc = "exited"
    /\ adopted
    /\ compared # NoCompare
    /\ compared.expected = fs[BaselinePath]

\* what compare_images reported for the images the last __exit__ handed to it
Reported == compare_images(compared.expected, compared.actual, tol, "none")

\* the last __exit__ ran the comparison and the library raised no error of its own
ComparisonCompleted ==
    /\ pc = "exited"
    /\ compared # NoCompare
    /\ raised \notin {"ValueError", "OtherError"}
    /\ Reported.raises = "none"

\* C10: when a baseline exists and the comparison reports a mismatch, the actual
\* and expected images, and the difference image when there is one, are copied
\* to the report files and an AssertionError is raised; when it reports no
\* difference, no AssertionError is raised and the baseline file stays as it was.
C10_MismatchReportsThenRaises ==
    /\ (ComparisonCompleted /\ Reported.failure.mismatch) =>
          /\ fs[reportfile("_actual")] = JustRendered
          /\ fs[reportfile("_baseline")] = fs_at_exit[BaselinePath]
          /\ Reported.failure.has_diff =>
                fs[reportfile("_diff")] = Reported.failure.diff
          /\ raised = "AssertionError"
          /\ fs[BaselinePath] = fs_at_exit[BaselinePath]
    /\ (ComparisonCompleted /\ ~Reported.failure.mismatch) =>
          /\ raised = "none"
          /\ fs = fs_at_exit

\* C10 witness: images of one size differed by more than the tolerance, the
\* report files were written and the AssertionError left the scope.
C10_Witness ==
    /\ ComparisonCompleted
    /\ Reported.failure.mismatch
    /\ raised = "AssertionError"
    /\ fs[reportfile("_actual")] # fs_at_exit[reportfile("_actual")]
    /\ fs[reportfile("_baseline")] # fs[reportfile("_actual")]

\* C11: a ValueError of compare_images whose message names the broadcast is
\* handled as a mismatch: the actual and expected images are reported and an
\* AssertionError is raised; a ValueError with another message, and any other
\* error, leaves the scope as it is, and no report is written.
C11_BroadcastErrorIsMismatch ==
    (pc = "exited" /\ cmp_error.raises # "none") =>
       IF cmp_error.raises = "ValueError" /\ cmp_error.message = "could not be broadcast"
       THEN /\ raised = "AssertionError"
            /\ fs[reportfile("_actual")] = JustRendered
            /\ fs[reportfile("_baseline")] = fs_at_exit[BaselinePath]
            /\ fs[reportfile("_diff")] = fs_at_exit[reportfile("_diff")]
            /\ fs[BaselinePath] = fs_at_exit[BaselinePath]
       ELSE /\ raised = cmp_error.raises
            /\ fs = fs_at_exit

\* C11 witness: the baseline and the rendered image differ in size, the
\* comparison raised the broadcast error, and the mismatch was reported.
C11_Witness ==
    /\ pc = "exited"
    /\ cmp_error = [raises |-> "ValueError", message |-> "could not be broadcast"]
    /\ compared.expected.shape # compared.actual.shape
    /\ raised = "AssertionError"
    /\ fs[reportfile("_actual")] = compared.actual

\* C18: when the body raises, __exit__ renders nothing, compares nothing,
\* writes no baseline and no report file, and the body's exception leaves the
\* scope; no AssertionError takes its place.
C18_BodyErrorPropagates ==
    (pc = "exited" /\ test.raises) =>
       /\ rendered = NoFile
       /\ compared = NoCompare
       /\ fs = fs_at_exit
       /\ passed = FALSE
       /\ raised = "BodyError"

\* C18 witness: the body raised while no baseline existed, and none was made.
C18_Witness ==
    /\ pc = "exited"
    /\ test.raises
    /\ raised = "BodyError"
    /\ ~exists(fs[BaselinePath])

----------------------------------------------------------------------------
(* Claims about FuzzySet + FuzzySet *)

\* C17: a + b and sum([a, b]) return a set that holds the items of a followed by
\* the items of b that a does not hold, and leave the items of a and of b as
\* they were before the expression was evaluated.
C17_SumLeavesOperandsUnchanged ==
    sum_op \in {"a + b", "sum([a, b])"} =>
       /\ lists[total.data] = iadd(lists_before[left.data], lists_before[right.data],
                                   left.rtol, left.atol)
       /\ lists[left.data] = lists_before[left.data]
       /\ lists[right.data] = lists_before[right.data]

----------------------------------------------------------------------------
(* Claims about pltutils.axes *)

\* C16: whenever an axes scope has just been left, by the end of its body or by
\* an exception raised in it, the current axes is the one that was current when
\* the scope was entered; so leaving the outermost scope returns to the axes
\* that was current before it.
C16_PreviousAxesRestoredOnEveryExit ==
    just_left # NoScope => current_ax = just_left.previous_ax

----------------------------------------------------------------------------
(* Claims about the radii of the sites *)

Constant(a) == \A i, j \in 1..Len(a) : a[i] = a[j]

\* C14 as stated: for a (min, max) pair and a constant data array of any
\* length, to_radii returns the max radius and divides by nothing that is zero.
C14_ConstantDataOfAnyLength ==
    (radii # NotComputed /\ site_radius.pair /\ Constant(rad_data)) =>
       radii = [raises |-> "none", kind |-> "scalar", value |-> <<Number(site_radius.max)>>]

\* C14 for arrays that are not empty: for a (min, max) pair and a constant data
\* array of at least one value, to_radii returns the max radius; and no call of
\* to_radii divides by zero.
C14_ConstantDataGetsMaxRadius ==
    /\ (radii # NotComputed /\ site_radius.pair /\ Len(rad_data) >= 1 /\ Constant(rad_data)) =>
          radii = [raises |-> "none", kind |-> "scalar", value |-> <<Number(site_radius.max)>>]
    /\ \A i \in 1..Len(radii.value) : radii.value[i].den # 0

C14_Witness ==
    /\ radii # NotComputed
    /\ site_radius.pair
    /\ site_radius.min < site_radius.max
    /\ Len(rad_data) = 2
    /\ Constant(rad_data)
    /\ rad_data[1] # 0

----------------------------------------------------------------------------
(* Claims about SpatialMap and StructureMap *)

\* the number of sites of the original map
NumSites == Len(arrays_at_init[map.data])

\* whether the last call asked to retain site i of the original map
Asked(i) ==
    IF map_call.op = "getitem" THEN map_call.idx[i]
    ELSE \A k \in 1..Len(map_call.limits) :
            LET limit == map_call.limits[k]
                v == arrays_at_init[map[limit.name]][i]
            IN  limit.lo <= v /\ v < limit.hi

Retained == {i \in 1..NumSites : Asked(i)}

\* the number of a retained site among the retained ones
Rank(i) == Cardinality({j \in Retained : j <= i})

SiteArrays == {"data", "x", "y", "z", "sublattices"}

\* the returned map holds new arrays with the values of the retained sites, in
\* the order of the original
SameSelection(new) ==
    \A f \in SiteArrays :
       /\ new[f] > Len(arrays_at_init)
       /\ Len(arrays[new[f]]) = Cardinality(Retained)
       /\ \A i \in Retained : arrays[new[f]][Rank(i)] = arrays_at_init[map[f]][i]

\* C13: cropped(**limits) returns a new map of the same class that retains
\* exactly the sites whose named coordinates all satisfy lo <= v < hi, and its
\* data, x, y, z and sublattices are those of the retained sites in the
\* original order, all of the same length.
C13_CroppedRetainsSitesWithinLimits ==
    map_call.op = "cropped" =>
       /\ derived.raises = "none"
       /\ derived.obj.cls = map.cls
       /\ SameSelection(derived.obj)

C13_Witness ==
    /\ map_call.op = "cropped"
    /\ Len(map_call.limits) = 2
    /\ NumSites = 2
    /\ Cardinality(Retained) = 1
    /\ \E i \in 1..NumSites : arrays[map.x][i] = map_call.limits[1].hi /\ arrays[map.y][i] = 0
    /\ \E i \in 1..NumSites : arrays[map.y][i] = map_call.limits[2].lo /\ i \in Retained

\* C15: clipped(v_min, v_max) on a map of either class does not fail and
\* returns a new map of the same class whose data are limited to
\* [v_min, v_max] and whose positions, sublattices, hoppings and boundaries
\* equal the original's.
C15_ClippedOnBothClasses ==
    map_call.op = "clipped" =>
       /\ derived.raises = "none"
       /\ derived.obj.cls = map.cls
       /\ Len(arrays[derived.obj.data]) = NumSites
       /\ \A i \in 1..NumSites :
             LET a == arrays_at_init[map.data][i]
                 c == arrays[derived.obj.data][i]
             IN  map_call.v_min <= map_call.v_max =>
                    /\ map_call.v_min <= c /\ c <= map_call.v_max
                    /\ (map_call.v_min <= a /\ a <= map_call.v_max) => c = a
       /\ \A f \in SiteArrays \ {"data"} : arrays[derived.obj[f]] = arrays_at_init[map[f]]
       /\ derived.obj.hoppings = map.hoppings
       /\ derived.obj.boundaries = map.boundaries

\* whether the matrix holds an entry for the pair (i, j), and its value
Stored(csr, i, j) == \E p \in 1..Len(csr.indices) : csr.indices[p] = <<i, j>>
Value(arrs, csr, i, j) == arrs[csr.data][CHOOSE p \in 1..Len(csr.indices) : csr.indices[p] = <<i, j>>]

\* filtered holds exactly the entries of original between retained sites,
\* with equal values, and nothing else
SameEntries(original, filtered) ==
    /\ filtered.n = Cardinality(Retained)
    /\ filtered.data > Len(arrays_at_init)
    /\ Len(arrays[filtered.data]) = Len(filtered.indices)
    /\ \A p, q \in 1..Len(filtered.indices) : p # q => filtered.indices[p] # filtered.indices[q]
    /\ \A p \in 1..Len(filtered.indices) :
          \E i, j \in Retained : filtered.indices[p] = <<Rank(i), Rank(j)>>
    /\ \A i, j \in Retained :
          /\ Stored(original, i, j) <=> Stored(filtered, Rank(i), Rank(j))
          /\ Stored(original, i, j) =>
                Value(arrays, filtered, Rank(i), Rank(j)) = Value(arrays_at_init, original, i, j)

\* C12: indexing or cropping a StructureMap yields hoppings, and for each
\* boundary hoppings, that hold for every pair of retained sites exactly the
\* stored entries of the original with equal values, those whose hopping id is
\* zero included, and no entry for a pair with an excluded site.
C12_FilterKeepsEntriesOfRetainedSites ==
    map_call.op \in {"getitem", "cropped"} =>
       /\ derived.raises = "none"
       /\ SameEntries(map.hoppings, derived.obj.hoppings)
       /\ Len(derived.obj.boundaries) = Len(map.boundaries)
       /\ \A b \in 1..Len(map.boundaries) :
             /\ derived.obj.boundaries[b].shift = map.boundaries[b].shift
             /\ SameEntries(map.boundaries[b].hoppings, derived.obj.boundaries[b].hoppings)

C12_Witness ==
    /\ map_call.op \in {"getitem", "cropped"}
    /\ map.boundaries # <<>>
    /\ \E i \in Retained, j \in 1..NumSites \ Retained :
          /\ Stored(map.hoppings, i, i)
          /\ Value(arrays, map.hoppings, i, i) = 0
          /\ Stored(derived.obj.hoppings, 1, 1)
          /\ Value(arrays, derived.obj.hoppings, 1, 1) = 0
          /\ Stored(map.hoppings, i, j)

\* C19: whatever index and crop calls were made on a StructureMap, the arrays
\* it holds (data, positions, sublattices, the values of its hoppings and of
\* its boundaries' hoppings) are as they were when it was constructed.
C19_OriginalUnchanged ==
    /\ Len(arrays) >= Len(arrays_at_init)
    /\ \A id \in 1..Len(arrays_at_init) : arrays[id] = arrays_at_init[id]

C19_Witness ==
    /\ map_call.op \in {"getitem", "cropped"}
    /\ map.boundaries # <<>>
    /\ Len(map.hoppings.indices) = 2
    /\ \E p \in 1..2 : arrays[map.hoppings.data][p] = 0
    /\ Len(derived.obj.hoppings.indices) = 1

====
